---- MODULE Spec2Model ----
(***************************************************************************)
(* Model of setupLightHandler (LightController/LightHandler.ts): the mode  *)
(* record, the target and last-pushed colours, the door override with its  *)
(* debounced fade-back, the tick loop and the connect sequence.            *)
(*                                                                         *)
(* Every handler runs to completion up to its first await on device I/O or *)
(* on a timer; the code after such an await is a separate action.          *)
(***************************************************************************)
EXTENDS Integers, Sequences, FiniteSets, TLC

\* ----------------------------------------------------------------- bounds

\* tick frames and connect sequences that may be alive at the same time, once
\* the device connects and disconnects
MaxFrames == 2

\* door handlers that may be suspended in their device write at the same time
MaxDoorAwait == 1

\* the door closes only when no channel of the target is more than MaxFade
\* below full: the fade-backs followed take at most MaxFade steps a channel
MaxFade == 2

\* ------------------------------------------------------- program constants

SECOND == 1000

\* const SERVER_FPS = SECOND * 0.05
SERVER_FPS == SECOND \div 20

\* debounce(..., SECOND * 10)
DebounceWait == SECOND * 10

\* the granularity with which the model lets the debounce delay elapse
TimeStep == DebounceWait \div 2

\* let r = 255 / light.setRGB(255, 255, 255) / clamp(red, 0, 255)
FULL == 255

Col(r, g, b) == [r |-> r, g |-> g, b |-> b]

White == Col(FULL, FULL, FULL)

Black == Col(0, 0, 0)

\* "no colour": a device that was never written, a message without a colour
NoRGB == Col(-1, -1, -1)

\* setMode's switch with a case too many
SelectableAndMore ==
  {"AutoPilot", "Manual", "Pattern", "Audio", "AudioRaw", "ManualForce", "ManualLocked",
   "Bogus"}

\* the cases of setMode's switch
Selectable ==
  {"AutoPilot", "Manual", "Pattern", "Audio", "AudioRaw", "ManualForce", "ManualLocked"}

\* the ControllerMode type: the modes a client may select and the internal Door
ControllerMode ==
  {"AutoPilot", "Manual", "Pattern", "Audio", "AudioRaw", "ManualForce", "ManualLocked",
   "Door"}

\* ------------------------------------------------------------------ inputs

\* what a client may send as the mode of mode-set: every defined mode and a
\* value that is no ControllerMode at all
RequestedModes == ControllerMode \cup {"Bogus"}

\* the colours a client sends with rgb-set in the behavioural specification:
\* channels at, above and just below full
RgbInputs == {Col(FULL + 1, FULL - 2, FULL + 1), Col(FULL - 2, FULL, FULL - 2)}

\* channel values of the request specification: below, at and above both ends
WideInputs == {-1, 0, 1, FULL, FULL + 1}

\* colours the pattern generator's scheduler state takes
PatternColors == {Col(FULL - 2, FULL, FULL - 2), Col(FULL, FULL - 2, FULL)}

\* colours the audio analyser returns
AudioColors == {Col(FULL - 2, FULL, FULL - 2)}

\* elapsed milliseconds of one frame: none, some, the whole budget, and an
\* overrun
ElapsedInputs == {0, 20, SERVER_FPS, SERVER_FPS + 1}

\* ------------------------------------------------------------------- state

VARIABLES
  lightMode,      \* let lightMode
  lastMode,       \* let lastMode
  settings,       \* settings.controllerMode
  saved,          \* the mode saveSettings() last wrote (the persisted mode)
  RGB,            \* const RGB: the target colour
  lastRGB,        \* const lastRGB: the last-pushed colour
  doorFrameLoop,  \* TRUE while the fade-back interval is set
  cursor,         \* the r, g, b of the running fade-back
  deLeft,         \* ms until the debounced function runs, -1: not pending
  doorAwait,      \* door handlers suspended in await light.setRGB(255, 255, 255)
  timeout,        \* let timeout: "pending" while it holds a timer yet to fire,
                  \* "idle" when undefined or holding a timer that fired
  orphans,        \* pending tick timers the variable timeout no longer holds
  awaiting,       \* frames suspended in await changeState()
  intro,          \* onConnect calls in flight, by the step each is waiting for
  connected,      \* the device is connected
  device,         \* the colour last written to the device
  step,           \* what the last handler was, was given, and emitted
  preDoorMode,    \* history: the mode current before the door-open that last
                  \* entered Door, "-" once a mode was set since
  preDoorRGB,     \* history: the target colour before that door-open, while the
                  \* override or its fade-back lasts
  quiet           \* history: ms since the last door-close with no door-open and
                  \* no mode change since, -1: none

modeVars == <<lightMode, lastMode, settings, saved>>

doorVars == <<doorFrameLoop, cursor, deLeft, doorAwait>>

tickVars == <<timeout, orphans, awaiting, intro, connected>>

histVars == <<preDoorMode, preDoorRGB, quiet>>

vars == <<lightMode, lastMode, settings, saved, RGB, lastRGB, doorFrameLoop, cursor,
          deLeft, doorAwait, timeout, orphans, awaiting, intro, connected, device,
          step, preDoorMode, preDoorRGB, quiet>>

\* ----------------------------------------------------------------- helpers

\* a clamp without its lower bound
clampUpper(number, lower, upper) == IF number > upper THEN upper ELSE number

\* lodash clamp(number, lower, upper)
clamp(number, lower, upper) ==
  IF number < lower THEN lower ELSE IF number > upper THEN upper ELSE number

ModeUpdate(mode) == [ev |-> "mode-update", mode |-> mode, rgb |-> NoRGB]

RgbUpdate(rgb) == [ev |-> "rgb-update", mode |-> "-", rgb |-> rgb]

\* updateModeAndLight(rgb) with the mode it reads
updateModeAndLight(mode, rgb) == <<ModeUpdate(mode), RgbUpdate(rgb)>>

\* the record of one handler run: its inputs, its outcome and what it emitted
Step(op) ==
  [op |-> op, auth |-> TRUE, mode |-> "-", chan |-> NoRGB, level |-> FALSE,
   result |-> "ok", setMode |-> "-", cancelled |-> -1, writes |-> <<>>,
   bcast |-> <<>>, saved |-> FALSE, elapsed |-> -1, delay |-> -1]

IntroCount == intro[1] + intro[2] + intro[3] + intro[4] + intro[5] + intro[6]

\* tick frames and connect sequences alive
Frames == (IF timeout = "pending" THEN 1 ELSE 0) + orphans + awaiting + IntroCount

\* ------------------------------------------------------------------- setup

Init ==
  /\ lightMode \in Selectable
  /\ lastMode = lightMode
  /\ settings = lightMode
  /\ saved = lightMode
  /\ RGB = Black
  /\ lastRGB = White
  /\ doorFrameLoop = FALSE
  /\ cursor = White
  /\ deLeft = -1
  /\ doorAwait = 0
  /\ timeout = "idle"
  /\ orphans = 0
  /\ awaiting = 0
  /\ connected \in BOOLEAN
  /\ intro = [k \in 1..6 |-> IF k = 1 /\ connected THEN 1 ELSE 0]
  /\ device = NoRGB
  /\ step = Step("setup")
  /\ preDoorMode = "-"
  /\ preDoorRGB = NoRGB
  /\ quiet = -1

\* ----------------------------------------------------------------- setMode

\* const diff = lightMode !== mode
diff(mode) == lightMode # mode

\* a cancel that leaves the timer running
keepTimer(left) == left

\* de.cancel(): the timer's remaining time afterwards
cancel(left) == -1

\* setMode(mode) for a case of the switch: the assignments, the cancelled door
\* timers and the save
setMode(mode) ==
  /\ lightMode' = mode
  /\ lastMode' = mode
  /\ settings' = mode
  /\ doorFrameLoop' = FALSE
  /\ cursor' = White
  /\ deLeft' = cancel(deLeft)
  /\ saved' = IF diff(mode) THEN mode ELSE saved
  /\ preDoorMode' = "-"
  /\ preDoorRGB' = NoRGB
  /\ quiet' = -1

\* what a successful setMode(mode) leaves in the handler's record
setModeStep(op, mode) ==
  [Step(op) EXCEPT !.mode = mode, !.setMode = "ok", !.cancelled = deLeft,
                   !.bcast = <<ModeUpdate(mode)>>, !.saved = diff(mode)]

\* client.validateAuthentication() throws: the handler ends before it reads
\* or writes anything
Unauthenticated(op) ==
  /\ step' = [Step(op) EXCEPT !.auth = FALSE, !.result = "error"]
  /\ UNCHANGED <<modeVars, RGB, lastRGB, doorVars, tickVars, device, histVars>>

\* websocket.on("rgb-set", (client, red, green, blue) => ...) for a client that
\* is authenticated
RgbSet(client, red, green, blue) ==
  LET mode == IF client = "client" THEN "Manual" ELSE "AudioRaw" IN
  /\ setMode(mode)
  /\ RGB' = Col(clamp(red, 0, FULL), clamp(green, 0, FULL), clamp(blue, 0, FULL))
  /\ step' = [setModeStep("rgb-set", mode) EXCEPT !.chan = Col(red, green, blue)]
  /\ UNCHANGED <<lastRGB, doorAwait, tickVars, device>>

\* websocket.onPromise("mode-set", async (client, mode) => ...) for a client
\* that is authenticated: setMode is not awaited, so the handler's promise
\* resolves whatever setMode does
ModeSet(mode) ==
  IF mode \in Selectable
  THEN /\ setMode(mode)
       /\ step' = setModeStep("mode-set", mode)
       /\ UNCHANGED <<RGB, lastRGB, doorAwait, tickVars, device>>
  ELSE \* default: throw new Error(`Mode ${mode} does not exist!`)
       /\ step' = [Step("mode-set") EXCEPT !.mode = mode, !.setMode = "error"]
       /\ UNCHANGED <<modeVars, RGB, lastRGB, doorVars, tickVars, device, histVars>>

\* the guard with ManualForce forgotten
unattendedManualOnly == lightMode = "Manual"

\* if (lightMode === "Manual" || lightMode === "ManualForce")
unattended == lightMode = "Manual" \/ lightMode = "ManualForce"

\* websocket.onSocketEvent("all-clients-disconnected", ...)
AllClientsDisconnected ==
  IF unattended
  THEN /\ setMode("AutoPilot")
       /\ step' = setModeStep("all-clients-disconnected", "AutoPilot")
       /\ UNCHANGED <<RGB, lastRGB, doorAwait, tickVars, device>>
  ELSE /\ step' = Step("all-clients-disconnected")
       /\ UNCHANGED <<modeVars, RGB, lastRGB, doorVars, tickVars, device, histVars>>

\* -------------------------------------------------------------------- door

\* a door handler that does not honour the lock
neverLocked == FALSE

\* if (lightMode === "ManualLocked") return
locked == lightMode = "ManualLocked"

\* the fade-back the door's closing would lead to is within the model's bound
FadeBounded ==
  /\ FULL - RGB.r <= MaxFade
  /\ FULL - RGB.g <= MaxFade
  /\ FULL - RGB.b <= MaxFade

\* light.on('door', async (level) => ...), up to its await
Door(level) ==
  /\ (level /\ ~locked) => doorAwait < MaxDoorAwait
  /\ ~level => FadeBounded
  /\ IF locked
     THEN /\ step' = [Step("door") EXCEPT !.level = level]
          /\ quiet' = IF level THEN -1 ELSE 0
          /\ UNCHANGED <<modeVars, RGB, lastRGB, doorVars, tickVars, device,
                         preDoorMode, preDoorRGB>>
     ELSE /\ doorFrameLoop' = FALSE
          /\ cursor' = White
          /\ IF level
             THEN /\ deLeft' = cancel(deLeft)
                  /\ lightMode' = "Door"
                  /\ device' = White
                  /\ doorAwait' = doorAwait + 1
                  /\ step' = [Step("door") EXCEPT !.level = TRUE,
                                !.cancelled = deLeft, !.writes = <<White>>]
                  /\ preDoorMode' = IF lightMode = "Door" THEN preDoorMode ELSE lightMode
                  /\ preDoorRGB' = IF lightMode = "Door" THEN preDoorRGB ELSE RGB
                  /\ quiet' = -1
             ELSE /\ deLeft' = DebounceWait
                  /\ step' = [Step("door") EXCEPT !.level = FALSE,
                                !.bcast = updateModeAndLight(lightMode, White)]
                  /\ quiet' = 0
                  /\ UNCHANGED <<lightMode, device, doorAwait, preDoorMode, preDoorRGB>>
          /\ UNCHANGED <<lastMode, settings, saved, RGB, lastRGB, tickVars>>

\* the door handler after await light.setRGB(255, 255, 255)
DoorResume ==
  /\ doorAwait > 0
  /\ doorAwait' = doorAwait - 1
  /\ step' = [Step("door-resume") EXCEPT !.bcast = updateModeAndLight(lightMode, White)]
  /\ UNCHANGED <<modeVars, RGB, lastRGB, doorFrameLoop, cursor, deLeft, tickVars,
                 device, histVars>>

\* time passes while the debounce timer is pending
Elapse ==
  /\ deLeft > 0
  /\ deLeft' = clamp(deLeft - TimeStep, 0, DebounceWait)
  /\ quiet' = IF quiet >= 0 THEN clamp(quiet + TimeStep, 0, DebounceWait) ELSE quiet
  /\ step' = Step("elapse")
  /\ UNCHANGED <<modeVars, RGB, lastRGB, doorFrameLoop, cursor, doorAwait, tickVars,
                 device, preDoorMode, preDoorRGB>>

\* const de = debounce(async () => ..., SECOND * 10): the debounced function runs
de ==
  /\ deLeft = 0
  /\ deLeft' = -1
  /\ doorFrameLoop' = TRUE
  /\ cursor' = White
  /\ quiet' = -1
  /\ step' = Step("de")
  /\ UNCHANGED <<modeVars, RGB, lastRGB, doorAwait, tickVars, device,
                 preDoorMode, preDoorRGB>>

\* if (r > RGB.r) r--
fade(c, target) == IF c > target THEN c - 1 ELSE c

\* if (r === RGB.r && b === RGB.b && b === RGB.b)
fadeDone(c) == c.r = RGB.r /\ c.b = RGB.b /\ c.b = RGB.b

\* a completion that leaves the mode as it is
keepMode == lightMode

\* lightMode = lastMode
restoreMode == lastMode

\* the setInterval callback of the fade-back
FadeStep ==
  /\ doorFrameLoop
  /\ LET c == Col(fade(cursor.r, RGB.r), fade(cursor.g, RGB.g), fade(cursor.b, RGB.b))
         mode == IF fadeDone(c) THEN restoreMode ELSE lightMode
     IN /\ lightMode' = mode
        /\ doorFrameLoop' = ~fadeDone(c)
        /\ cursor' = IF fadeDone(c) THEN White ELSE c
        /\ device' = c
        /\ step' = [Step("doorFrameLoop") EXCEPT !.writes = <<c>>,
                      !.bcast = updateModeAndLight(mode, RGB)]
        /\ preDoorRGB' = IF fadeDone(c) THEN NoRGB ELSE preDoorRGB
  /\ UNCHANGED <<lastMode, settings, saved, RGB, lastRGB, deLeft, doorAwait,
                 tickVars, preDoorMode, quiet>>

\* -------------------------------------------------------------------- tick

\* isStateChanged(): in AutoPilot the target is first set to the pattern
\* generator's scheduler state p
targetRead(p) == IF lightMode = "AutoPilot" THEN p ELSE RGB

\* a change detection that reports a change in every mode but Door
alwaysChanged(p) == lightMode # "Door"

\* isStateChanged()'s result
isStateChanged(p) ==
  IF lightMode = "Audio" \/ lightMode = "AudioRaw" THEN TRUE
  ELSE IF lightMode = "Door" THEN FALSE
  ELSE ~(targetRead(p).r = lastRGB.r /\ targetRead(p).b = lastRGB.b
         /\ targetRead(p).g = lastRGB.g)

\* a delay that gives the audio modes the cadence of the others
fixedCadence(mode, el) == IF el > SERVER_FPS THEN 0 ELSE SERVER_FPS - el

\* the delay tick() gives setTimeout at the end of a frame that took el ms
nextDelay(mode, el) ==
  IF el > SERVER_FPS THEN 0
  ELSE IF mode = "Audio" \/ mode = "AudioRaw" THEN 0 ELSE SERVER_FPS - el

\* timeout = setTimeout(tick, ...): a timer the variable held before, if it is
\* still pending, stays pending without a holder
schedule(tmo, orph) ==
  /\ timeout' = "pending"
  /\ orphans' = orph + (IF tmo = "pending" THEN 1 ELSE 0)

\* tick(), up to the await in changeState() or, when nothing is awaited, to its
\* end.  tmo and orph are the timers left when the frame starts, p the pattern
\* generator's state, a the audio analyser's colour, ok the answer of
\* light.setIfPossible, el the frame's elapsed time.
tick(op, tmo, orph, p, a, ok, el) ==
  IF ~isStateChanged(p)
  THEN /\ RGB' = targetRead(p)
       /\ schedule(tmo, orph)
       /\ step' = [Step(op) EXCEPT !.elapsed = el, !.delay = nextDelay(lightMode, el)]
       /\ UNCHANGED <<lastRGB, device, awaiting>>
  ELSE IF lightMode = "Audio"
  THEN \* changeState(), the Audio branch: nothing in it is awaited
       /\ RGB' = IF ok THEN a ELSE RGB
       /\ lastRGB' = IF ok THEN a ELSE lastRGB
       /\ device' = IF ok THEN a ELSE device
       /\ schedule(tmo, orph)
       /\ step' = [Step(op) EXCEPT
                     !.writes = IF ok THEN <<a>> ELSE <<>>,
                     !.bcast = IF ok THEN <<RgbUpdate(a)>> ELSE <<>>,
                     !.elapsed = el, !.delay = nextDelay(lightMode, el)]
       /\ UNCHANGED awaiting
  ELSE \* changeState() up to await light.setRGB(RGB.r, RGB.g, RGB.b)
       /\ RGB' = targetRead(p)
       /\ lastRGB' = targetRead(p)
       /\ device' = targetRead(p)
       /\ awaiting' = awaiting + 1
       /\ timeout' = tmo
       /\ orphans' = orph
       /\ step' = [Step(op) EXCEPT !.writes = <<targetRead(p)>>]

\* the inputs a frame reads in the current mode
PatternNow == IF lightMode = "AutoPilot" THEN PatternColors ELSE {NoRGB}

AudioNow == IF lightMode = "Audio" THEN AudioColors ELSE {NoRGB}

AdmitNow == IF lightMode = "Audio" THEN BOOLEAN ELSE {TRUE}

\* the timer held by the variable timeout fires
TickTimer ==
  /\ timeout = "pending"
  /\ \E p \in PatternNow, a \in AudioNow, ok \in AdmitNow, el \in ElapsedInputs :
       tick("tick", "idle", orphans, p, a, ok, el)
  /\ UNCHANGED <<modeVars, doorVars, intro, connected, histVars>>

\* a pending tick timer the variable timeout no longer holds fires
TickOrphan ==
  /\ orphans > 0
  /\ \E p \in PatternNow, a \in AudioNow, ok \in AdmitNow, el \in ElapsedInputs :
       tick("tick", timeout, orphans - 1, p, a, ok, el)
  /\ UNCHANGED <<modeVars, doorVars, intro, connected, histVars>>

\* tick() after await changeState(): the broadcast that ends changeState(), and
\* the next timer
TickResume ==
  /\ awaiting > 0
  /\ awaiting' = awaiting - 1
  /\ \E el \in ElapsedInputs :
       /\ schedule(timeout, orphans)
       /\ step' = [Step("tick-resume") EXCEPT !.bcast = <<RgbUpdate(RGB)>>,
                     !.elapsed = el, !.delay = nextDelay(lightMode, el)]
  /\ UNCHANGED <<modeVars, RGB, lastRGB, doorVars, intro, connected, device, histVars>>

\* ----------------------------------------------------------------- connect

\* if (timeout) { clearTimeout(timeout); timeout = undefined }
clearTick == timeout' = "idle"

\* light.on('connect', ...) -> onConnect(), up to its first sleep
Connect ==
  /\ ~connected
  /\ Frames - (IF timeout = "pending" THEN 1 ELSE 0) < MaxFrames
  /\ connected' = TRUE
  /\ clearTick
  /\ intro' = [intro EXCEPT ![1] = @ + 1]
  /\ step' = Step("connect")
  /\ UNCHANGED <<modeVars, RGB, lastRGB, doorVars, orphans, awaiting, device, histVars>>

\* light.on('disconnect', ...)
Disconnect ==
  /\ connected
  /\ connected' = FALSE
  /\ clearTick
  /\ step' = Step("disconnect")
  /\ UNCHANGED <<modeVars, RGB, lastRGB, doorVars, orphans, awaiting, intro, device,
                 histVars>>

\* the colours onConnect() writes: red, green, blue, black and the target
introColor(k) ==
  CASE k = 1 -> Col(FULL, 0, 0)
    [] k = 2 -> Col(0, FULL, 0)
    [] k = 3 -> Col(0, 0, FULL)
    [] k = 4 -> Black
    [] OTHER -> RGB

\* onConnect() after its k-th sleep: the k-th write
IntroStep(k) ==
  /\ intro[k] > 0
  /\ intro' = [intro EXCEPT ![k] = @ - 1, ![k + 1] = @ + 1]
  /\ device' = introColor(k)
  /\ step' = [Step("onConnect") EXCEPT !.writes = <<introColor(k)>>]
  /\ UNCHANGED <<modeVars, RGB, lastRGB, doorVars, timeout, orphans, awaiting,
                 connected, histVars>>

\* onConnect() after its last write: tick()
IntroTick ==
  /\ intro[6] > 0
  /\ intro' = [intro EXCEPT ![6] = @ - 1]
  /\ \E p \in PatternNow, a \in AudioNow, ok \in AdmitNow, el \in ElapsedInputs :
       tick("onConnect-tick", timeout, orphans, p, a, ok, el)
  /\ UNCHANGED <<modeVars, doorVars, connected, histVars>>

\* ---------------------------------------------------------- specifications

\* the handlers of the client requests and of the socket events
Requests(inputs) ==
  \/ \E client \in {"client", "audio-server"}, c \in inputs :
       RgbSet(client, c.r, c.g, c.b)
  \/ Unauthenticated("rgb-set")
  \/ \E mode \in RequestedModes : ModeSet(mode)
  \/ Unauthenticated("mode-set")
  \/ AllClientsDisconnected

\* the door, its timers, and the tick loop the setup started
Next ==
  \/ Requests(RgbInputs)
  \/ \E level \in BOOLEAN : Door(level)
  \/ DoorResume
  \/ Elapse
  \/ de
  \/ FadeStep
  \/ TickTimer
  \/ TickResume
  \/ \E k \in 1..5 : IntroStep(k)
  \/ IntroTick

\* the device stays as the setup found it, connected or not
Spec == Init /\ [][Next]_vars

\* the device also connects and disconnects, while the door opens and closes
\* and a client sets colours
NextConn ==
  \/ Connect
  \/ Disconnect
  \/ \E k \in 1..5 : IntroStep(k)
  \/ IntroTick
  \/ TickTimer
  \/ TickOrphan
  \/ TickResume
  \/ \E c \in RgbInputs : RgbSet("client", c.r, c.g, c.b)
  \/ \E level \in BOOLEAN : Door(level)
  \/ DoorResume
  \/ Elapse
  \/ de
  \/ FadeStep

SpecConn == Init /\ [][NextConn]_vars

\* the requests alone, with channel values on both sides of both bounds
NextRequests ==
  Requests({Col(r, g, b) : r \in WideInputs, g \in WideInputs, b \in WideInputs})

SpecRequests == Init /\ [][NextRequests]_vars

\* the door and the tick loop with no client: the target moves only as the
\* pattern generator and the audio analyser move it
NextFade ==
  \/ \E level \in BOOLEAN : Door(level)
  \/ DoorResume
  \/ Elapse
  \/ de
  \/ FadeStep
  \/ TickTimer
  \/ TickResume
  \/ \E k \in 1..5 : IntroStep(k)
  \/ IntroTick

\* setInterval(..., 100): while the interval is set its callback keeps running
SpecFade == Init /\ [][NextFade]_vars /\ WF_vars(FadeStep)

\* ------------------------------------------------------------------ claims

Range(seq) == {seq[i] : i \in 1..Len(seq)}

\* the modes whose frames compare the target with the last-pushed colour
Compared == {"Manual", "Pattern", "ManualForce", "ManualLocked"}

\* the last step was a run of the fade-back's callback that cleared the interval
FadeCompletes == step'.op = "doorFrameLoop" /\ doorFrameLoop /\ ~doorFrameLoop'

\* C1: setMode with a value that is no ControllerMode fails with an error and
\* changes nothing: the current, previous and persisted mode, the target and
\* last-pushed colours, the pending debounce timer and the running fade-back
\* stay as they were, nothing is saved and nothing is broadcast.
C1_InvalidModeChangesNothing ==
  [][(step'.op = "mode-set" /\ step'.auth /\ step'.mode \notin ControllerMode)
       => /\ step'.setMode = "error"
          /\ UNCHANGED <<lightMode, lastMode, settings, saved, RGB, lastRGB,
                         deLeft, doorFrameLoop, cursor>>
          /\ step'.bcast = <<>>
          /\ ~step'.saved]_vars

\* C1's case: setMode has rejected a value that is no mode while a fade-back
\* was running
C1_Witness ==
  /\ step.op = "mode-set"
  /\ step.mode = "Bogus"
  /\ step.setMode = "error"
  /\ doorFrameLoop
  /\ cursor # White

\* C2: a mode-set request whose mode is not selectable (an unknown value, or
\* Door) fails: the result the handler delivers to the client is an error, and
\* the current mode is unchanged.
C2_InvalidModeSetFails ==
  [][(step'.op = "mode-set" /\ step'.mode \notin Selectable)
       => step'.result = "error" /\ lightMode' = lightMode]_vars

\* C3: on a door-open event in ManualLocked the mode, the device output and
\* the timers are unchanged and nothing is written to the device; in every
\* other mode the mode becomes Door and the event writes (255, 255, 255),
\* with the target colour and the previous-mode record unchanged.
C3_DoorOpen ==
  [][(step'.op = "door" /\ step'.level)
       => IF lightMode = "ManualLocked"
          THEN /\ UNCHANGED <<lightMode, lastMode, device, deLeft, doorFrameLoop,
                              cursor, timeout, orphans, RGB, lastRGB>>
               /\ step'.writes = <<>>
          ELSE /\ lightMode' = "Door"
               /\ step'.writes = <<Col(255, 255, 255)>>
               /\ device' = Col(255, 255, 255)
               /\ UNCHANGED <<RGB, lastMode>>]_vars

\* C3's cases: the door has opened outside the lock, and under it
C3_Witness ==
  /\ step.op = "door"
  /\ step.level
  /\ lightMode = "Door"
  /\ lastMode = "AutoPilot"
  /\ device = White
  /\ RGB # White

C3_WitnessLocked ==
  /\ step.op = "door"
  /\ step.level
  /\ lightMode = "ManualLocked"
  /\ step.writes = <<>>

\* C4: a door-close followed by a door-open before the debounce delay has
\* elapsed never starts the fade-back: every door-open leaves no debounce
\* timer pending and no fade-back running, and the fade-back starts only when
\* the debounced function runs, a full delay after a door-close that no
\* door-open and no mode change has followed.
C4_OpenWithinWindowNoFade ==
  [][/\ (step'.op = "door" /\ step'.level) => (deLeft' = -1 /\ ~doorFrameLoop')
     /\ (doorFrameLoop' /\ ~doorFrameLoop) => step'.op = "de"
     /\ step'.op = "de" => quiet = 10000]_vars

\* C4's case: the door has opened while the debounce of a close was under way
C4_Witness ==
  /\ step.op = "door"
  /\ step.level
  /\ step.cancelled > 0
  /\ step.cancelled < DebounceWait
  /\ deLeft = -1

\* C5: a fade-back that stops by completing has last written, in all three
\* channels, the target colour that was active before the door opened.
C5_FadeEndsOnTarget ==
  [][(FadeCompletes /\ lightMode = "Door") => step'.writes = <<preDoorRGB>>]_vars

\* C6: a fade-back that completes restores the mode that was current before
\* the door-open that entered Door, however often the door opened and closed
\* since; the restored mode is never Door.
C6_FadeRestoresPreDoorMode ==
  [][FadeCompletes
       => /\ lightMode' # "Door"
          /\ lightMode = "Door" => lightMode' = preDoorMode]_vars

\* C6's case: a fade-back has completed and ended a Door override
C6_Witness ==
  /\ step.op = "doorFrameLoop"
  /\ ~doorFrameLoop
  /\ preDoorMode = "ManualForce"
  /\ lightMode = "ManualForce"
  /\ ModeUpdate("ManualForce") \in Range(step.bcast)

\* C7: in Manual, Pattern, ManualForce and ManualLocked a frame writes the
\* target to the device exactly when it differs from the last-pushed colour,
\* and the write leaves last-pushed equal to the target; once they are equal
\* they stay so until the target changes, so no later frame writes again.
C7_PushOnChangeOnly ==
  [][/\ (step'.op \in {"tick", "onConnect-tick"} /\ lightMode \in Compared)
          => /\ step'.writes # <<>> <=> RGB # lastRGB
             /\ step'.writes # <<>>
                  => step'.writes = <<RGB>> /\ lastRGB' = RGB /\ RGB' = RGB
     /\ (lastRGB = RGB /\ RGB' = RGB) => lastRGB' = RGB]_vars

\* C7's case: a frame in Manual has pushed a target a client set
C7_Witness ==
  /\ step.op = "tick"
  /\ lightMode = "Manual"
  /\ step.writes = <<Col(255, 253, 255)>>
  /\ lastRGB = RGB
  /\ awaiting = 1

\* C8: when all clients have disconnected, Manual and ManualForce become
\* AutoPilot with a mode-update(AutoPilot) broadcast; any other mode stays.
C8_AllClientsDisconnected ==
  [][step'.op = "all-clients-disconnected"
       => IF lightMode \in {"Manual", "ManualForce"}
          THEN /\ lightMode' = "AutoPilot"
               /\ ModeUpdate("AutoPilot") \in Range(step'.bcast)
          ELSE lightMode' = lightMode]_vars

\* C8's case: the event has moved the mode to AutoPilot
C8_Witness ==
  /\ step.op = "all-clients-disconnected"
  /\ step.setMode = "ok"
  /\ lightMode = "AutoPilot"
  /\ step.saved
  /\ step.bcast = <<ModeUpdate("AutoPilot")>>

\* C9: setMode(m) when the mode is already m leaves the mode record as it is,
\* saves nothing and broadcasts no mode-update.
C9_SameModeIsSilent ==
  [][(step'.setMode = "ok" /\ step'.mode = lightMode)
       => /\ UNCHANGED <<lightMode, lastMode>>
          /\ ~step'.saved
          /\ \A m \in Range(step'.bcast) : m.ev # "mode-update"]_vars

\* y is x brought into 0..255
Clamped(x, y) ==
  /\ y \in 0..255
  /\ x < 0 => y = 0
  /\ x > 255 => y = 255
  /\ x \in 0..255 => y = x

\* C10: after rgb-set(r, g, b) every channel of the target is its input
\* clamped to 0..255, r in r, g in g and b in b.
C10_RgbSetClamps ==
  (step.op = "rgb-set" /\ step.auth)
    => /\ Clamped(step.chan.r, RGB.r)
       /\ Clamped(step.chan.g, RGB.g)
       /\ Clamped(step.chan.b, RGB.b)

\* C10's case: an input below 0, one above 255 and one within
C10_Witness ==
  /\ step.op = "rgb-set"
  /\ step.chan = Col(-1, 256, 1)
  /\ RGB = Col(0, 255, 1)

\* C11: after a disconnect event no tick timer, no debounce timer and no
\* fade-back is pending, and the handler that runs next (before any connect
\* has brought the device back) writes nothing to the device.
C11_DisconnectSilences ==
  [][/\ step'.op = "disconnect"
          => /\ timeout' = "idle"
             /\ orphans' = 0
             /\ deLeft' = -1
             /\ ~doorFrameLoop'
     /\ (step.op = "disconnect" /\ ~connected') => step'.writes = <<>>]_vars

\* an onConnect sequence has written its first colour and not yet its last
IntroUnderWay == intro[2] + intro[3] + intro[4] + intro[5] > 0

\* an onConnect sequence has not yet written its last colour
IntroUnfinished == intro[1] + intro[2] + intro[3] + intro[4] + intro[5] > 0

\* C12: while a connect sequence is between its first and its last write no
\* frame of the tick loop writes to the device, and no timer of the tick loop
\* starts a frame before the sequence has written its last colour.
C12_IntroUninterrupted ==
  [][/\ (IntroUnderWay /\ step'.op \in {"tick", "onConnect-tick"})
          => step'.writes = <<>>
     /\ IntroUnfinished => step'.op # "tick"]_vars

\* frames of the tick loop pending (a timer yet to fire) or executing
\* (suspended in their device write)
TickFrames == (IF timeout = "pending" THEN 1 ELSE 0) + orphans + awaiting

\* C13: in every reachable state at most one frame of the tick loop is
\* pending or executing.
C13_OneTickChain == TickFrames <= 1

\* C14: whenever a frame in Manual, Pattern, ManualForce or ManualLocked finds
\* the target equal to the last-pushed colour, and so does not push, the
\* colour last written to the device is the target.
C14_LastPushedIsOnDevice ==
  [][(/\ step'.op \in {"tick", "onConnect-tick"}
      /\ lightMode \in Compared
      /\ RGB = lastRGB
      /\ step'.writes = <<>>)
       => device = RGB]_vars

\* C15: every successful setMode, whether or not the mode changes, and every
\* door-open outside ManualLocked leaves no debounce timer pending and no
\* fade-back running, and raises no error; when neither was pending the door
\* timers are left exactly as they were.
C15_TimersCancelled ==
  [][(\/ step'.setMode = "ok"
      \/ (step'.op = "door" /\ step'.level /\ lightMode # "ManualLocked"))
       => /\ deLeft' = -1
          /\ ~doorFrameLoop'
          /\ step'.result = "ok"
          /\ (deLeft = -1 /\ ~doorFrameLoop)
               => UNCHANGED <<deLeft, doorFrameLoop, cursor>>]_vars

\* C15's case: a setMode that leaves the mode as it is has cancelled a
\* debounce timer that was under way
C15_Witness ==
  /\ step.op = "mode-set"
  /\ step.setMode = "ok"
  /\ ~step.saved
  /\ step.cancelled > 0
  /\ deLeft = -1
  /\ ~doorFrameLoop

\* C16: every run of the fade-back's callback writes one colour to the device
\* and broadcasts that same colour as its rgb-update.
C16_FadeStepSameColour ==
  [][step'.op = "doorFrameLoop"
       => /\ Len(step'.writes) = 1
          /\ \A m \in Range(step'.bcast) :
               m.ev = "rgb-update" => m.rgb = step'.writes[1]]_vars

\* C17: a frame that reaches its end arms exactly one timer, the one the
\* variable timeout then holds, with a delay within 0..50 ms: 0 when the frame
\* took more than 50 ms or the mode at its end is Audio or AudioRaw, and 50
\* less the elapsed time otherwise.  No step of a frame starts another frame:
\* the frames and timers of the loop are as many after it as before.
C17_RescheduleOnce ==
  [][step'.op \in {"tick", "onConnect-tick", "tick-resume"}
       => /\ TickFrames' + intro'[6] = TickFrames + intro[6]
          /\ Len(step'.writes) <= 1
          /\ IF step'.delay = -1
             THEN awaiting' = awaiting + 1
             ELSE /\ timeout' = "pending"
                  /\ awaiting' <= awaiting
                  /\ step'.elapsed >= 0
                  /\ step'.delay \in 0..50
                  /\ step'.delay =
                       IF step'.elapsed > 50 \/ lightMode' \in {"Audio", "AudioRaw"}
                       THEN 0 ELSE 50 - step'.elapsed]_vars

\* C17's case: a frame that pushed in 20 ms has armed its timer for 30 ms
C17_Witness ==
  /\ step.op = "tick-resume"
  /\ step.elapsed = 20
  /\ step.delay = 30
  /\ timeout = "pending"
  /\ lightMode \notin {"Audio", "AudioRaw"}

\* C18: the debounced function runs, and the fade-back's callback runs, only
\* while the mode is Door.
C18_FadeOnlyInDoor ==
  [][step'.op \in {"de", "doorFrameLoop"} => lightMode = "Door"]_vars

\* C19: a fade-back that runs eventually stops, by completing or by being
\* cancelled.
C19_FadeStops == doorFrameLoop ~> ~doorFrameLoop

\* C20: the all-clients-disconnected event leaves a mode that is neither
\* Manual nor ManualForce, and the handler that runs next, unless it is a
\* client's rgb-set or mode-set, leaves such a mode too.
C20_UnattendedNeverManual ==
  [][/\ step'.op = "all-clients-disconnected"
          => lightMode' \notin {"Manual", "ManualForce"}
     /\ (step.op = "all-clients-disconnected" /\ step'.op \notin {"rgb-set", "mode-set"})
          => lightMode' \notin {"Manual", "ManualForce"}]_vars

====
